---- MODULE Spec2Model ----
(***************************************************************************)
(* The LALR(1) parse table of astropy/coordinates/angle_parsetab.py, run   *)
(* by a table-driven shift-reduce parser over token sequences of           *)
(* sexagesimal angle strings.  The tables are transcribed entry by entry;  *)
(* the parser reads one lookahead token at a time, consults                *)
(* _lr_action[state][token], and shifts, reduces, accepts or fails.        *)
(***************************************************************************)
EXTENDS Integers, Sequences, FiniteSets, TLC

\* Longest token sequence the lexer hands to the parser before the end marker.
\* The longest sentence of the grammar has 7 tokens, so an eighth is always refused.
MaxLen == 8

\* ------------------------------------------------------------------------
\* The generated tables (angle_parsetab.py)
\* ------------------------------------------------------------------------

\* The end-of-input token type.
\* Several parses may run at once over the tables below: each has a parser state of
\* its own (state stack, symbol stack, lookahead, input read, outcome, trace).
VARIABLES
    parses        \* parse name -> parser state

EndMarker == "$end"

\* token -> (states, actions): action > 0 shifts to that state, action < 0
\* reduces by production -action, action 0 accepts.
_lr_action_items ==
    ("HOUR" :> << <<2, 8, 10, 17, 18, 21, 25, 26, 27, 28, 34>>,
        <<-15, 12, -14, 20, -16, -12, -13, -9, -8, -10, -11>> >>)
 @@ ("DEGREE" :> << <<2, 8, 10, 17, 18, 21, 25, 26, 27, 28, 34>>,
        <<-15, 13, -14, 19, -16, -12, -13, -9, -8, -10, -11>> >>)
 @@ ("SIGN" :> << <<0>>,
        <<5>> >>)
 @@ ("SECOND" :> << <<2, 8, 10, 17, 18, 21, 25, 26, 27, 28, 32, 33, 34>>,
        <<-15, 14, -14, -17, -16, -12, -13, -9, -8, -10, 35, 36, -11>> >>)
 @@ ("COLON" :> << <<17, 28>>,
        <<22, 31>> >>)
 @@ ("UINT" :> << <<0, 5, 11, 17, 19, 20, 21, 22, 29, 30, 31>>,
        <<-7, -6, 17, 21, 23, 24, 26, 28, 26, 26, 26>> >>)
 @@ ("SIMPLE_UNIT" :> << <<2, 8, 10, 17, 18, 21, 25, 26, 27, 28, 34>>,
        <<-15, 15, -14, -17, -16, -12, -13, -9, -8, -10, -11>> >>)
 @@ ("UFLOAT" :> << <<0, 5, 11, 21, 29, 30, 31>>,
        <<-7, -6, 18, 27, 27, 27, 27>> >>)
 @@ ("MINUTE" :> << <<2, 8, 10, 17, 18, 21, 23, 24, 25, 26, 27, 28, 34>>,
        <<-15, 16, -14, -17, -16, -12, 29, 30, -13, -9, -8, -10, -11>> >>)
 @@ ("$end" :> << <<1, 2, 3, 4, 6, 7, 8, 9, 10, 12, 13, 14, 15, 16, 17, 18, 19, 20, 21, 23, 24, 25, 26, 27, 28, 29, 30, 32, 33, 34, 35, 36>>,
        <<-4, -15, 0, -5, -3, -1, -30, -2, -14, -23, -29, -32, -31, -33, -17, -16, -24, -18, -12, -25, -19, -13, -9, -8, -10, -26, -20, -27, -21, -11, -28, -22>> >>)

\* The loop building _lr_action: _lr_action[_x][_k] = _y for every zipped pair
\* (a later pair for the same state and token overwrites an earlier one).
\* BuildTable(items, x) is the inner dictionary of state x, as a function
\* key -> value; _lr_action(x) is _lr_action[x].
ZipLen(v) == IF Len(v[1]) < Len(v[2]) THEN Len(v[1]) ELSE Len(v[2])

ZipIdx(v, x) == {i \in 1..ZipLen(v) : v[1][i] = x}

LastIdx(S) == CHOOSE i \in S : \A j \in S : j <= i

BuildTable(items, x) ==
    [k \in {kk \in DOMAIN items : ZipIdx(items[kk], x) # {}}
        |-> items[k][2][LastIdx(ZipIdx(items[k], x))]]

\* A table with one entry set, or one entry dropped.
With(f, k, v) == [kk \in DOMAIN f \cup {k} |-> IF kk = k THEN v ELSE f[kk]]

Without(f, k) == [kk \in DOMAIN f \ {k} |-> f[kk]]

\* Faulty variants of the action table, each off by one entry.
\* State 8 (generic .) without its shift on SIMPLE_UNIT.
_lr_action_NoSimpleUnit(x) ==
    IF x = 8 THEN Without(BuildTable(_lr_action_items, x), "SIMPLE_UNIT")
    ELSE BuildTable(_lr_action_items, x)

\* State 17 (sign UINT .) resolving HOUR and DEGREE by reducing generic -> sign UINT.
_lr_action_ReduceGeneric(x) ==
    IF x = 17
    THEN With(With(BuildTable(_lr_action_items, x), "HOUR", -17), "DEGREE", -17)
    ELSE BuildTable(_lr_action_items, x)

\* State 7 (angle -> hms .) accepting at the end marker instead of reducing.
_lr_action_EarlyAccept(x) ==
    IF x = 7 THEN With(BuildTable(_lr_action_items, x), EndMarker, 0)
    ELSE BuildTable(_lr_action_items, x)

\* State 19 (sign UINT DEGREE .) shifting a SIGN before the minutes.
_lr_action_SignedMinutes(x) ==
    IF x = 19 THEN With(BuildTable(_lr_action_items, x), "SIGN", 5)
    ELSE BuildTable(_lr_action_items, x)

\* State 23 (sign UINT DEGREE UINT .) shifting SECOND as it shifts MINUTE.
_lr_action_SecondAsMinute(x) ==
    IF x = 23 THEN With(BuildTable(_lr_action_items, x), "SECOND", 29)
    ELSE BuildTable(_lr_action_items, x)

\* A further UINT taken after the seconds of a dms chain: state 26 (ufloat -> UINT .)
\* reduces on UINT and state 32 (sign UINT DEGREE UINT MINUTE ufloat .) shifts it.
_lr_action_FourthNumber(x) ==
    IF x = 26 THEN With(BuildTable(_lr_action_items, x), "UINT", -9)
    ELSE IF x = 32 THEN With(BuildTable(_lr_action_items, x), "UINT", 35)
    ELSE BuildTable(_lr_action_items, x)

\* State 31 (sign UINT COLON UINT COLON .) taking whole seconds only.
_lr_action_ColonWholeSeconds(x) ==
    IF x = 31 THEN Without(BuildTable(_lr_action_items, x), "UFLOAT")
    ELSE BuildTable(_lr_action_items, x)

\* State 17 (sign UINT .) shifting COLON to state 21, where a second UINT belongs.
_lr_action_ColonAsNumber(x) ==
    IF x = 17 THEN With(BuildTable(_lr_action_items, x), "COLON", 21)
    ELSE BuildTable(_lr_action_items, x)

\* State 16 (arcminute -> generic MINUTE .) reducing arcsecond -> generic SECOND.
_lr_action_MinuteAsSecond(x) ==
    IF x = 16 THEN With(BuildTable(_lr_action_items, x), EndMarker, -32)
    ELSE BuildTable(_lr_action_items, x)

\* State 17 (sign UINT .) taking a UFLOAT as it takes a UINT: decimal minutes in the
\* spaced form.
_lr_action_FloatMinutes(x) ==
    IF x = 17
    THEN With(BuildTable(_lr_action_items, x), "UFLOAT", 21)
    ELSE BuildTable(_lr_action_items, x)

\* A table that a parse writes to: once some parse has hit a syntax error, the entry
\* for HOUR after a number is gone for every parse.
_lr_action_PatchedOnError(x) ==
    IF x = 17 /\ \E p \in DOMAIN parses : parses[p].outcome = "error"
    THEN Without(BuildTable(_lr_action_items, x), "HOUR")
    ELSE BuildTable(_lr_action_items, x)

_lr_action(x) == BuildTable(_lr_action_items, x)

\* nonterminal -> (states, goto states)
_lr_goto_items ==
    ("arcminute" :> << <<0>>,
        <<1>> >>)
 @@ ("angle" :> << <<0>>,
        <<3>> >>)
 @@ ("simple" :> << <<0>>,
        <<4>> >>)
 @@ ("arcsecond" :> << <<0>>,
        <<6>> >>)
 @@ ("hms" :> << <<0>>,
        <<7>> >>)
 @@ ("generic" :> << <<0>>,
        <<8>> >>)
 @@ ("dms" :> << <<0>>,
        <<9>> >>)
 @@ ("colon" :> << <<0>>,
        <<10>> >>)
 @@ ("spaced" :> << <<0>>,
        <<2>> >>)
 @@ ("sign" :> << <<0>>,
        <<11>> >>)
 @@ ("ufloat" :> << <<21, 29, 30, 31>>,
        <<25, 32, 33, 34>> >>)

\* The loop building _lr_goto, as for _lr_action.
\* A faulty goto table: in state 0, `sign' leads back to state 0.
_lr_goto_SignLoop(x) ==
    IF x = 0 THEN With(BuildTable(_lr_goto_items, x), "sign", 0)
    ELSE BuildTable(_lr_goto_items, x)

_lr_goto(x) == BuildTable(_lr_goto_items, x)

\* (str, name, len, ...) per production; str is kept split into its symbols.
\* The list is indexed from 0 in the source: Production(n) is _lr_productions[n].
_lr_productions == <<
    [str |-> <<"S'", "->", "angle">>, name |-> "S'", len |-> 1],
    [str |-> <<"angle", "->", "hms">>, name |-> "angle", len |-> 1],
    [str |-> <<"angle", "->", "dms">>, name |-> "angle", len |-> 1],
    [str |-> <<"angle", "->", "arcsecond">>, name |-> "angle", len |-> 1],
    [str |-> <<"angle", "->", "arcminute">>, name |-> "angle", len |-> 1],
    [str |-> <<"angle", "->", "simple">>, name |-> "angle", len |-> 1],
    [str |-> <<"sign", "->", "SIGN">>, name |-> "sign", len |-> 1],
    [str |-> <<"sign", "->", "<empty>">>, name |-> "sign", len |-> 0],
    [str |-> <<"ufloat", "->", "UFLOAT">>, name |-> "ufloat", len |-> 1],
    [str |-> <<"ufloat", "->", "UINT">>, name |-> "ufloat", len |-> 1],
    [str |-> <<"colon", "->", "sign", "UINT", "COLON", "UINT">>, name |-> "colon", len |-> 4],
    [str |-> <<"colon", "->", "sign", "UINT", "COLON", "UINT", "COLON", "ufloat">>, name |-> "colon", len |-> 6],
    [str |-> <<"spaced", "->", "sign", "UINT", "UINT">>, name |-> "spaced", len |-> 3],
    [str |-> <<"spaced", "->", "sign", "UINT", "UINT", "ufloat">>, name |-> "spaced", len |-> 4],
    [str |-> <<"generic", "->", "colon">>, name |-> "generic", len |-> 1],
    [str |-> <<"generic", "->", "spaced">>, name |-> "generic", len |-> 1],
    [str |-> <<"generic", "->", "sign", "UFLOAT">>, name |-> "generic", len |-> 2],
    [str |-> <<"generic", "->", "sign", "UINT">>, name |-> "generic", len |-> 2],
    [str |-> <<"hms", "->", "sign", "UINT", "HOUR">>, name |-> "hms", len |-> 3],
    [str |-> <<"hms", "->", "sign", "UINT", "HOUR", "UINT">>, name |-> "hms", len |-> 4],
    [str |-> <<"hms", "->", "sign", "UINT", "HOUR", "UINT", "MINUTE">>, name |-> "hms", len |-> 5],
    [str |-> <<"hms", "->", "sign", "UINT", "HOUR", "UINT", "MINUTE", "ufloat">>, name |-> "hms", len |-> 6],
    [str |-> <<"hms", "->", "sign", "UINT", "HOUR", "UINT", "MINUTE", "ufloat", "SECOND">>, name |-> "hms", len |-> 7],
    [str |-> <<"hms", "->", "generic", "HOUR">>, name |-> "hms", len |-> 2],
    [str |-> <<"dms", "->", "sign", "UINT", "DEGREE">>, name |-> "dms", len |-> 3],
    [str |-> <<"dms", "->", "sign", "UINT", "DEGREE", "UINT">>, name |-> "dms", len |-> 4],
    [str |-> <<"dms", "->", "sign", "UINT", "DEGREE", "UINT", "MINUTE">>, name |-> "dms", len |-> 5],
    [str |-> <<"dms", "->", "sign", "UINT", "DEGREE", "UINT", "MINUTE", "ufloat">>, name |-> "dms", len |-> 6],
    [str |-> <<"dms", "->", "sign", "UINT", "DEGREE", "UINT", "MINUTE", "ufloat", "SECOND">>, name |-> "dms", len |-> 7],
    [str |-> <<"dms", "->", "generic", "DEGREE">>, name |-> "dms", len |-> 2],
    [str |-> <<"simple", "->", "generic">>, name |-> "simple", len |-> 1],
    [str |-> <<"simple", "->", "generic", "SIMPLE_UNIT">>, name |-> "simple", len |-> 2],
    [str |-> <<"arcsecond", "->", "generic", "SECOND">>, name |-> "arcsecond", len |-> 2],
    [str |-> <<"arcminute", "->", "generic", "MINUTE">>, name |-> "arcminute", len |-> 2]
>>

Production(n) == _lr_productions[n + 1]

\* Right-hand side symbols spelled in a production's string.
Rhs(n) ==
    LET s == Production(n).str
    IN  IF s[3] = "<empty>" THEN <<>> ELSE SubSeq(s, 3, Len(s))

\* Terminals: the keys of _lr_action_items other than the end marker.
Tokens == DOMAIN _lr_action_items \ {EndMarker}

Numeric == {"UINT", "UFLOAT"}

\* ------------------------------------------------------------------------
\* The shift-reduce parser running the tables
\* ------------------------------------------------------------------------

VARIABLES
    statestack,   \* LR states, bottom first
    symstack,     \* grammar symbols under the states; a token keeps its input position
    lookahead,    \* the token type in hand, NoToken when the next one is still to be read
    input,        \* the token types read from the lexer so far
    outcome,      \* "running", "accept" or "error"
    trace         \* the shifts and reductions performed, in order

\* The astropy logger (logger.py) and the interpreter hooks it installs itself into.
VARIABLES
    level,               \* self.level, the logger's threshold
    handlers,            \* self.handlers: the installed handlers (object ids), in order
    objects,             \* every handler object created so far, by id
    blocks,              \* the log_to_list / log_to_file blocks entered so far, in order
    logged,              \* the messages logged so far, in order
    showwarning,         \* warnings.showwarning
    _showwarning_orig,   \* self._showwarning_orig
    excepthook,          \* sys.excepthook
    _excepthook_orig,    \* self._excepthook_orig
    ipython,             \* whether get_ipython() gives a shell
    custom_exceptions,   \* ip.custom_exceptions
    calls,               \* the hooks called with an uncaught exception, in order
    lastcall,            \* the last call that bears on the hooks and whether it raised
    history              \* what has happened to the hooks: see NewLogger

parserVars == <<statestack, symstack, lookahead, input, outcome, trace>>

loggerVars ==
    <<level, handlers, objects, blocks, logged, showwarning, _showwarning_orig,
      excepthook, _excepthook_orig, ipython, custom_exceptions, calls, lastcall,
      history>>

vars == <<parserVars, parses, loggerVars>>

NoToken == "None"

Cfg ==
    [statestack |-> statestack, symstack |-> symstack, lookahead |-> lookahead,
     input |-> input, outcome |-> outcome, trace |-> trace]

InitCfg ==
    [statestack |-> <<0>>, symstack |-> <<[type |-> EndMarker, at |-> 0]>>,
     lookahead |-> NoToken, input |-> <<>>, outcome |-> "running", trace |-> <<>>]

Top(c) == c.statestack[Len(c.statestack)]

Running(c) == c.outcome = "running"

\* The action the table gives for the state on top and the token in hand.
HasAction(c) == c.lookahead \in DOMAIN _lr_action(Top(c))

Action(c) == _lr_action(Top(c))[c.lookahead]

\* Read the next token: tok is a token type, or the end marker once the input is over.
CanGetToken(c) == Running(c) /\ c.lookahead = NoToken

GetTokenCfg(c, tok) ==
    [c EXCEPT !.lookahead = tok,
              !.input = IF tok = EndMarker THEN @ ELSE Append(@, tok)]

\* t > 0: push state t and the token, and drop the lookahead.
CanShift(c) == Running(c) /\ c.lookahead # NoToken /\ HasAction(c) /\ Action(c) > 0

ShiftCfg(c) ==
    [c EXCEPT !.statestack = Append(@, Action(c)),
              !.symstack = Append(@, [type |-> c.lookahead, at |-> Len(c.input)]),
              !.lookahead = NoToken,
              !.trace = Append(@, [op |-> "shift", arg |-> Action(c),
                                   toks |-> <<Len(c.input)>>])]

\* t < 0: pop len symbols and states, push the production's name and the goto state.
\* A goto entry missing for the uncovered state is a KeyError: the parse dies.
CanReduce(c) == Running(c) /\ c.lookahead # NoToken /\ HasAction(c) /\ Action(c) < 0

Popped(c, plen) == SubSeq(c.symstack, Len(c.symstack) - plen + 1, Len(c.symstack))

TokensAt(syms) ==
    LET ts == SelectSeq(syms, LAMBDA s : s.at > 0)
    IN  [i \in 1..Len(ts) |-> ts[i].at]

ReduceCfg(c) ==
    LET n     == 0 - Action(c)
        pname == Production(n).name
        plen  == Production(n).len
        keep  == Len(c.statestack) - plen
    IN  IF keep < 1 \/ pname \notin DOMAIN _lr_goto(c.statestack[keep])
        THEN [c EXCEPT !.outcome = "crash"]
        ELSE [c EXCEPT
                !.statestack = Append(SubSeq(@, 1, keep), _lr_goto(c.statestack[keep])[pname]),
                !.symstack = Append(SubSeq(@, 1, keep), [type |-> pname, at |-> 0]),
                !.trace = Append(@, [op |-> "reduce", arg |-> n,
                                     toks |-> TokensAt(Popped(c, plen))])]

\* t = 0: the parse is complete.
CanAccept(c) == Running(c) /\ c.lookahead # NoToken /\ HasAction(c) /\ Action(c) = 0

AcceptCfg(c) == [c EXCEPT !.outcome = "accept"]

\* No entry: a syntax error; the parse ends and nothing is recovered.
CanError(c) == Running(c) /\ c.lookahead # NoToken /\ ~HasAction(c)

ErrorCfg(c) == [c EXCEPT !.outcome = "error"]

\* The parse of a whole token sequence: the same steps, the tokens taken from seq.
StepCfg(c, seq) ==
    IF CanGetToken(c)
    THEN GetTokenCfg(c, IF Len(c.input) < Len(seq) THEN seq[Len(c.input) + 1] ELSE EndMarker)
    ELSE IF CanShift(c) THEN ShiftCfg(c)
    ELSE IF CanReduce(c) THEN ReduceCfg(c)
    ELSE IF CanAccept(c) THEN AcceptCfg(c)
    ELSE ErrorCfg(c)

RECURSIVE RunCfg(_, _)
RunCfg(c, seq) == IF Running(c) THEN RunCfg(StepCfg(c, seq), seq) ELSE c

ParseOf(seq) == RunCfg(InitCfg, seq)

Set(c) ==
    /\ statestack' = c.statestack
    /\ symstack' = c.symstack
    /\ lookahead' = c.lookahead
    /\ input' = c.input
    /\ outcome' = c.outcome
    /\ trace' = c.trace
    /\ UNCHANGED <<parses, loggerVars>>

\* The names of the parses that run side by side.
Parsers == {"p", "q"}

\* No hook is the Python None; the hooks known to the model are the interpreter's
\* own ("default"), another party's ("custom") and the logger's methods.
None == "None"

\* A logger object as logging.getLogger constructs it, before _set_defaults runs, in
\* the plain interpreter (ip FALSE) or under IPython (ip TRUE).
NewLogger(ip) ==
    /\ level = "NOTSET"
    /\ handlers = <<>>
    /\ objects = <<>>
    /\ blocks = <<>>
    /\ logged = <<>>
    /\ showwarning = "default"
    /\ _showwarning_orig = None
    /\ excepthook = "default"
    /\ _excepthook_orig = None
    /\ ipython = ip
    /\ custom_exceptions = {}
    /\ calls = <<>>
    /\ lastcall = [op |-> "new", raised |-> FALSE]
    \* For each feature: whether an enable has succeeded with no disable succeeding
    \* since, the hook that enable found installed, and whether another party has
    \* put its own hook in since.
    /\ history = [warnings |-> [on |-> FALSE, found |-> None, foreign |-> FALSE],
                  exception |-> [on |-> FALSE, found |-> None, foreign |-> FALSE]]

\* No parse has read anything yet.
ParserInit ==
    /\ statestack = InitCfg.statestack
    /\ symstack = InitCfg.symstack
    /\ lookahead = InitCfg.lookahead
    /\ input = InitCfg.input
    /\ outcome = InitCfg.outcome
    /\ trace = InitCfg.trace
    /\ parses = [p \in Parsers |-> InitCfg]

Init == ParserInit /\ NewLogger(FALSE)

GetToken ==
    /\ CanGetToken(Cfg)
    /\ \E tok \in Tokens \cup {EndMarker} :
          /\ tok # EndMarker => Len(input) < MaxLen
          /\ Set(GetTokenCfg(Cfg, tok))

Shift == CanShift(Cfg) /\ Set(ShiftCfg(Cfg))

Reduce == CanReduce(Cfg) /\ Set(ReduceCfg(Cfg))

Accept == CanAccept(Cfg) /\ Set(AcceptCfg(Cfg))

Error == CanError(Cfg) /\ Set(ErrorCfg(Cfg))

Next == GetToken \/ Shift \/ Reduce \/ Accept \/ Error

Spec == Init /\ [][Next]_vars

\* The parser loop runs on until it returns: a step that can be taken is taken.
FairSpec == Spec /\ WF_vars(Next)

\* ------------------------------------------------------------------------
\* Several parses interleaved over the one set of tables
\* ------------------------------------------------------------------------

\* The longest input a parse reads when parses run side by side.
MaxSharedLen == 2

SetIn(p, c) ==
    /\ parses' = [parses EXCEPT ![p] = c]
    /\ UNCHANGED <<parserVars, loggerVars>>

GetTokenIn(p) ==
    /\ CanGetToken(parses[p])
    /\ \E tok \in Tokens \cup {EndMarker} :
          /\ tok # EndMarker => Len(parses[p].input) < MaxSharedLen
          /\ SetIn(p, GetTokenCfg(parses[p], tok))

ShiftIn(p) == CanShift(parses[p]) /\ SetIn(p, ShiftCfg(parses[p]))

ReduceIn(p) == CanReduce(parses[p]) /\ SetIn(p, ReduceCfg(parses[p]))

AcceptIn(p) == CanAccept(parses[p]) /\ SetIn(p, AcceptCfg(parses[p]))

ErrorIn(p) == CanError(parses[p]) /\ SetIn(p, ErrorCfg(parses[p]))

\* Any parse that has a step to take may take it next.
SharedNext ==
    \E p \in Parsers :
        GetTokenIn(p) \/ ShiftIn(p) \/ ReduceIn(p) \/ AcceptIn(p) \/ ErrorIn(p)

SharedSpec == Init /\ [][SharedNext]_vars

\* ------------------------------------------------------------------------
\* Observations of a parse, read off its trace
\* ------------------------------------------------------------------------

\* The productions reduced so far, in order.
Reds(c) ==
    LET rs == SelectSeq(c.trace, LAMBDA e : e.op = "reduce")
    IN  [i \in 1..Len(rs) |-> rs[i].arg]

Reduced(c, n) == \E i \in DOMAIN c.trace : c.trace[i].op = "reduce" /\ c.trace[i].arg = n

ReducedAny(c, S) == \E n \in S : Reduced(c, n)

\* Input positions shifted so far.
Shifted(c) == {c.trace[i].toks[1] : i \in {j \in DOMAIN c.trace : c.trace[j].op = "shift"}}

\* The production whose right-hand side took the token at position i (0: none yet).
Consumer(c, i) ==
    LET hits == {j \in DOMAIN c.trace :
                    /\ c.trace[j].op = "reduce"
                    /\ \E k \in DOMAIN c.trace[j].toks : c.trace[j].toks[k] = i}
    IN  IF hits = {} THEN 0 ELSE c.trace[CHOOSE j \in hits : TRUE].arg

\* The alternative of `angle' the parse reduced (productions 1-5), "" when none.
TopAlternative(c) ==
    LET tops == {j \in DOMAIN c.trace :
                    c.trace[j].op = "reduce" /\ Production(c.trace[j].arg).name = "angle"}
    IN  IF tops = {} THEN "" ELSE Rhs(c.trace[CHOOSE j \in tops : TRUE].arg)[1]

NumericPositions(seq) == {i \in DOMAIN seq : seq[i] \in Numeric}

IsPrefix(a, b) == Len(a) <= Len(b) /\ SubSeq(b, 1, Len(a)) = a

\* The input without a leading SIGN.
Unsigned(seq) ==
    IF seq # <<>> /\ seq[1] = "SIGN" THEN Tail(seq) ELSE seq

\* The sentences derivable from a symbol with productions 1-33 (the grammar has
\* no recursion, so the set is finite).
RECURSIVE LangOf(_), LangOfRhs(_)
LangOf(sym) ==
    IF sym \notin {Production(n).name : n \in 1..(Len(_lr_productions) - 1)}
    THEN {<<sym>>}
    ELSE UNION {LangOfRhs(Rhs(n)) :
                  n \in {m \in 1..(Len(_lr_productions) - 1) : Production(m).name = sym}}

LangOfRhs(rhs) ==
    IF rhs = <<>> THEN {<<>>}
    ELSE {a \o b : a \in LangOf(Head(rhs)), b \in LangOfRhs(Tail(rhs))}

AngleLang == LangOf("angle")

\* Some sentence of the language starts with seq.
Viable(seq) == \E s \in AngleLang : IsPrefix(seq, s)

\* ------------------------------------------------------------------------
\* Properties
\* ------------------------------------------------------------------------

\* C1: language equivalence.  A parse that accepts has read a sentence derivable
\* from `angle' with productions 1-33; a parse that fails at the end marker has
\* read a sequence that is not derivable, and a parse that fails at a token has
\* read a prefix no derivable sentence starts with; no parse ends any other way.
\* (So the parse of a derivable sequence cannot fail, and since it ends, accepts.)
C1_LanguageEquivalence ==
    /\ outcome \in {"running", "accept", "error"}
    /\ outcome = "accept" => input \in AngleLang
    /\ outcome = "error" =>
          IF lookahead = EndMarker THEN input \notin AngleLang ELSE ~Viable(input)

C1_Witness ==
    /\ outcome = "accept"
    /\ input = <<"SIGN", "UINT", "COLON", "UINT", "COLON", "UFLOAT", "SIMPLE_UNIT">>

StartsWith(seq, a, b) == Len(seq) >= 2 /\ seq[1] = a /\ seq[2] = b

\* C2: direct productions win over generic + unit.  An accepted sequence that
\* begins [SIGN] UINT HOUR (or [SIGN] UINT DEGREE) was parsed by one of the direct
\* hms (dms) productions 18-22 (24-28), without generic -> sign UINT (17) and
\* without hms -> generic HOUR (23) (dms -> generic DEGREE, 29); and whenever 23 or
\* 29 is reduced, the generic came from colon (14), spaced (15) or sign UFLOAT (16).
C2_DirectProductionsWin ==
    /\ (outcome = "accept" /\ StartsWith(Unsigned(input), "UINT", "HOUR")) =>
          /\ ReducedAny(Cfg, 18..22)
          /\ ~Reduced(Cfg, 17) /\ ~Reduced(Cfg, 23)
    /\ (outcome = "accept" /\ StartsWith(Unsigned(input), "UINT", "DEGREE")) =>
          /\ ReducedAny(Cfg, 24..28)
          /\ ~Reduced(Cfg, 17) /\ ~Reduced(Cfg, 29)
    /\ (Reduced(Cfg, 23) \/ Reduced(Cfg, 29)) =>
          ReducedAny(Cfg, {14, 15, 16}) /\ ~Reduced(Cfg, 17)

C2_Witness ==
    /\ outcome = "accept"
    /\ input = <<"SIGN", "UINT", "HOUR">>
    /\ Reds(Cfg) = <<6, 18, 1>>

HasValidProperPrefix(seq) ==
    \E k \in 1..(Len(seq) - 1) : SubSeq(seq, 1, k) \in AngleLang

\* C3: no partial parses.  The parser accepts only with state 3 on top of state 0
\* and the end marker in hand, every token read having been shifted and taken by a
\* reduction; and a sequence that extends a valid angle by a token no valid angle
\* continues with is never accepted: the extra token is never shifted.
C3_NoPartialParse ==
    /\ outcome = "accept" =>
          /\ statestack = <<0, 3>>
          /\ lookahead = EndMarker
          /\ Shifted(Cfg) = DOMAIN input
          /\ \A i \in DOMAIN input : Consumer(Cfg, i) # 0
    /\ (HasValidProperPrefix(input) /\ ~Viable(input)) =>
          /\ outcome # "accept"
          /\ Len(input) \notin Shifted(Cfg)

C3_Witness ==
    /\ outcome = "error"
    /\ input = <<"UINT", "DEGREE", "UINT", "MINUTE", "UFLOAT", "SECOND", "UINT">>

SignReductions(c) ==
    {j \in DOMAIN c.trace : c.trace[j].op = "reduce" /\ c.trace[j].arg \in {6, 7}}

ShiftsOf(c, kinds) ==
    {j \in DOMAIN c.trace :
        c.trace[j].op = "shift" /\ c.input[c.trace[j].toks[1]] \in kinds}

\* C4: the sign applies once.  A SIGN token is shifted only as the first token;
\* there is at most one reduction of sign (6: sign -> SIGN, 7: sign -> <empty>),
\* it comes before the shift of any numeric token, and an accepted parse has
\* exactly one and no SIGN after its first token.
C4_SignAppliesOnce ==
    /\ \A j \in ShiftsOf(Cfg, {"SIGN"}) : trace[j].toks[1] = 1
    /\ Cardinality(SignReductions(Cfg)) <= 1
    /\ \A j \in ShiftsOf(Cfg, Numeric) : \E k \in SignReductions(Cfg) : k < j
    /\ outcome = "accept" =>
          /\ Cardinality(SignReductions(Cfg)) = 1
          /\ \A i \in 2..Len(input) : input[i] # "SIGN"

C4_Witness ==
    /\ outcome = "accept"
    /\ input = <<"SIGN", "UINT", "DEGREE", "UINT", "MINUTE", "UINT", "SECOND">>
    /\ Cardinality(SignReductions(Cfg)) = 1

Before(seq, i, kinds) == \E j \in 1..(i - 1) : seq[j] \in kinds

\* C5: bare SECOND and MINUTE only via generic.  In an accepted sequence a SECOND
\* with no MINUTE before it is taken by arcsecond -> generic SECOND (32) and a
\* MINUTE with no HOUR or DEGREE before it by arcminute -> generic MINUTE (33); a
\* MINUTE taken by an hms/dms chain production follows HOUR|DEGREE UINT and a
\* SECOND taken by one follows MINUTE and a number.
C5_BareUnitsViaGeneric ==
    outcome = "accept" =>
        \A i \in DOMAIN input :
            /\ (input[i] = "SECOND" /\ ~Before(input, i, {"MINUTE"})) =>
                  Consumer(Cfg, i) = 32
            /\ (input[i] = "MINUTE" /\ ~Before(input, i, {"HOUR", "DEGREE"})) =>
                  Consumer(Cfg, i) = 33
            /\ (input[i] = "MINUTE" /\ Consumer(Cfg, i) \in {20, 21, 22, 26, 27, 28}) =>
                  i >= 3 /\ input[i - 2] \in {"HOUR", "DEGREE"} /\ input[i - 1] = "UINT"
            /\ (input[i] = "SECOND" /\ Consumer(Cfg, i) \in {22, 28}) =>
                  i >= 3 /\ input[i - 2] = "MINUTE" /\ input[i - 1] \in Numeric

C5_Witness ==
    /\ outcome = "accept"
    /\ input = <<"UINT", "COLON", "UINT", "SECOND">>
    /\ Consumer(Cfg, 4) = 32

\* C6: component count.  An accepted sequence holds one, two or three numeric
\* tokens; a fourth numeric token is never shifted.
C6_ComponentCount ==
    /\ outcome = "accept" => Cardinality(NumericPositions(input)) \in 1..3
    /\ Cardinality(NumericPositions(input) \cap Shifted(Cfg)) <= 3

C6_Witness ==
    /\ outcome = "accept"
    /\ Cardinality(NumericPositions(input)) = 3
    /\ input[Len(input)] = "SECOND"

RECURSIVE ColonForm(_)
ColonForm(t) ==
    IF Len(t) <= 1 THEN t
    ELSE LET front == SubSeq(t, 1, Len(t) - 1)
             last  == t[Len(t)]
         IN  IF last \in Numeric /\ t[Len(t) - 1] \in Numeric
             THEN ColonForm(front) \o <<"COLON", last>>
             ELSE ColonForm(front) \o <<last>>

AsColon(n) == CASE n = 12 -> 10 [] n = 13 -> 11 [] n = 15 -> 14 [] OTHER -> n

\* The numeric tokens in order, each with the production that took it.
Components(c) ==
    LET idx == SelectSeq([i \in 1..Len(c.input) |-> i], LAMBDA i : c.input[i] \in Numeric)
    IN  [k \in 1..Len(idx) |-> <<c.input[idx[k]], AsColon(Consumer(c, idx[k]))>>]

NoColon(seq) == \A i \in DOMAIN seq : seq[i] # "COLON"

\* C7: spaced and colon notation are equivalent.  For a sequence t without COLON,
\* ColonForm(t) puts a COLON between every two adjacent numeric tokens.  t is
\* accepted iff ColonForm(t) is, and then both parses reduce the same alternative
\* of `angle', give every numeric token to the same production and reduce the same
\* productions in the same order, up to spaced (12, 13, and 15 which passes spaced
\* on to generic) standing where colon (10, 11, and 14) stands.  A parse that fails
\* at a token of t leaves every continuation of t failing in colon form too.
C7_SpacedColonEquivalence ==
    (outcome \in {"accept", "error"} /\ NoColon(input)) =>
        LET r == ParseOf(ColonForm(input))
        IN  IF outcome = "accept"
            THEN /\ r.outcome = "accept"
                 /\ TopAlternative(r) = TopAlternative(Cfg)
                 /\ Components(r) = Components(Cfg)
                 /\ Reds(r) = [i \in DOMAIN Reds(Cfg) |-> AsColon(Reds(Cfg)[i])]
            ELSE /\ r.outcome = "error"
                 /\ lookahead # EndMarker => r.lookahead # EndMarker

C7_Witness ==
    /\ outcome = "accept"
    /\ input = <<"SIGN", "UINT", "UINT", "UFLOAT", "DEGREE">>
    /\ Reds(Cfg) = <<6, 8, 13, 15, 29, 2>>
    /\ Reds(ParseOf(ColonForm(input))) = <<6, 8, 11, 14, 29, 2>>

Offending(seq) ==
    {i \in DOMAIN seq :
        \/ seq[i] = "COLON" /\ (i = 1 \/ seq[i - 1] \notin Numeric)
        \/ i > 1 /\ seq[i - 1] = "COLON" /\ seq[i] \notin Numeric
        \/ seq[i] \notin Numeric \cup {"SIGN"} /\ \A j \in 1..(i - 1) : seq[j] = "SIGN"}

CutShort(seq) ==
    seq = <<>> \/ seq = <<"SIGN">> \/ seq[Len(seq)] = "COLON"

MustFail(c) == c.outcome = "error" \/ CanError(c)

\* C8: malformed sequences are rejected.  The offending token of a malformed
\* sequence is a COLON that does not follow a numeric token, a non-numeric token
\* after a COLON, or a first token after the SIGNs that is not numeric; with that
\* token in hand - or the end marker after nothing, after a lone SIGN or after a
\* COLON - the parser can only fail, and no accepted sequence is malformed.
C8_MalformedRejected ==
    /\ (lookahead \notin {NoToken, EndMarker} /\ Len(input) \in Offending(input)) =>
          MustFail(Cfg)
    /\ (lookahead = EndMarker /\ CutShort(input)) => MustFail(Cfg)
    /\ Offending(input) \cap Shifted(Cfg) = {}
    /\ outcome = "accept" => Offending(input) = {} /\ ~CutShort(input)

C8_Witness ==
    /\ outcome = "error"
    /\ input = <<"UINT", "COLON", "COLON">>

Holds(seq, kind) == \E i \in DOMAIN seq : seq[i] = kind

Classify(seq) ==
    IF Holds(seq, "HOUR") THEN "hms"
    ELSE IF Holds(seq, "DEGREE") THEN "dms"
    ELSE IF seq[Len(seq)] = "SECOND" THEN "arcsecond"
    ELSE IF seq[Len(seq)] = "MINUTE" THEN "arcminute"
    ELSE "simple"

EndsWith(seq, n, alt) ==
    (outcome # "running" /\ lookahead = EndMarker /\ input = seq) =>
        /\ outcome = "accept"
        /\ Reduced(Cfg, n)
        /\ TopAlternative(Cfg) = alt

\* C9: top-level classification.  The alternative an accepted parse reduces to
\* `angle' is hms iff the sequence holds HOUR, dms iff it holds DEGREE, else
\* arcsecond iff it ends in SECOND, arcminute iff it ends in MINUTE, else simple;
\* UINT HOUR UINT MINUTE UFLOAT SECOND ends accepted by production 22, UINT DEGREE
\* by 24, UINT MINUTE by arcminute (33) and a lone UFLOAT by simple (30).
C9_TopLevelClassification ==
    /\ outcome = "accept" =>
          /\ TopAlternative(Cfg) = Classify(input)
          /\ ~(Holds(input, "HOUR") /\ Holds(input, "DEGREE"))
    /\ EndsWith(<<"UINT", "HOUR", "UINT", "MINUTE", "UFLOAT", "SECOND">>, 22, "hms")
    /\ EndsWith(<<"UINT", "DEGREE">>, 24, "dms")
    /\ EndsWith(<<"UINT", "MINUTE">>, 33, "arcminute")
    /\ EndsWith(<<"UFLOAT">>, 30, "simple")

C9_Witness ==
    /\ outcome = "accept"
    /\ input = <<"UINT", "MINUTE">>
    /\ TopAlternative(Cfg) = "arcminute"

ReduceRun(c) ==
    LET shifts == {j \in DOMAIN c.trace : c.trace[j].op = "shift"}
        from   == IF shifts = {} THEN 0 ELSE CHOOSE j \in shifts : \A k \in shifts : k <= j
    IN  SubSeq(c.trace, from + 1, Len(c.trace))

NoRepeat(seq) == \A i, j \in DOMAIN seq : seq[i] = seq[j] => i = j

BoundedReductions ==
    /\ NoRepeat(ReduceRun(Cfg))
    /\ Len(ReduceRun(Cfg)) <= Len(_lr_productions)
    /\ Cardinality({j \in DOMAIN trace : trace[j].op = "reduce" /\ trace[j].arg = 7}) <= 1

\* C10: total one-shot parse.  Every parse reaches accept or error; between two
\* shifts no production is reduced twice, so a run of reductions is no longer than
\* the production list, and sign -> <empty> (7) is reduced at most once in a
\* parse; and no step is taken from the error outcome.
C10_TotalOneShot ==
    /\ <>(outcome \in {"accept", "error"})
    /\ []BoundedReductions
    /\ [][outcome # "error"]_vars

C10_Witness ==
    /\ outcome = "error"
    /\ input = <<"UINT", "UINT", "UINT", "HOUR", "UINT">>
    /\ Len(Reds(Cfg)) = 4

\* The states the action table has a row for, and the tables as a parse step finds them.
LRStates == UNION {{_lr_action_items[k][1][i] : i \in 1..ZipLen(_lr_action_items[k])} :
                     k \in DOMAIN _lr_action_items}

TablesRead ==
    [action |-> [x \in LRStates |-> _lr_action(x)],
     goto |-> [x \in LRStates |-> _lr_goto(x)],
     productions |-> _lr_productions]

\* A parse that has ended among the interleaved ones ended as it does run alone.
AsAlone(p) ==
    LET alone == ParseOf(parses[p].input)
    IN  /\ parses[p].outcome = alone.outcome
        /\ Reds(parses[p]) = Reds(alone)

MaxEmit == 2

MaxBlocks == 2

\* The levels of the configuration, least severe first; NOTSET is below them all.
Levels == <<"DEBUG", "INFO", "WARNING", "ERROR">>

LevelNames == {Levels[i] : i \in DOMAIN Levels}

_checkLevel(lv) == IF lv = "NOTSET" THEN 0 ELSE CHOOSE i \in DOMAIN Levels : Levels[i] = lv

\* Origins are module names, taken as sequences of characters.
Origins == {<<"a">>, <<"a", "b">>}

\* What a caller may pass as filter_level and as filter_origin; a sequence of length
\* zero is the argument left out.
FilterLevels == {None, "WARNING"}

FilterOrigins == {<<>>, << <<"a", "b">> >>}

\* The test the other way round: the filter's origin starts with the record's.
FilterOrigin_Reversed(forigin, record) == IsPrefix(record.origin, forigin)

\* FilterOrigin.filter: the record's origin starts with the filter's origin.
FilterOrigin(forigin, record) == IsPrefix(forigin, record.origin)

\* A handler object: logging.Handler's level and filters, whether it was closed, and
\* what it was given to emit (positions in logged): log_list for a ListHandler, the
\* lines printed or written for the others.
NewHandler(kind, flevel, forigin) ==
    [kind |-> kind,
     level |-> IF flevel = None THEN "NOTSET" ELSE flevel,
     filters |-> forigin,
     closed |-> FALSE,
     out |-> <<>>]

\* Logger.callHandlers and Handler.handle for one handler: the record is at or above
\* the handler's level and passes every filter added to it.
Handles(h, record) ==
    /\ _checkLevel(record.levelname) >= _checkLevel(h.level)
    /\ \A i \in DOMAIN h.filters : FilterOrigin(h.filters[i], record)

Installed(id) == \E i \in DOMAIN handlers : handlers[i] = id

\* Logger.isEnabledFor: the record is at or above the logger's own level.
IsEnabledFor(lv) == _checkLevel(lv) >= _checkLevel(level)

\* self.debug / info / warning / error (lv, with the origin makeRecord attaches): a
\* record at or above the logger's level goes to every installed handler that handles
\* it, which emits it. The message is noted in logged with the logger's level at the
\* time, whether or not a record was made of it.
Log(lv, origin) ==
    LET record == [levelname |-> lv, origin |-> origin, threshold |-> level]
        n == Len(logged) + 1
    IN  /\ logged' = Append(logged, record)
        /\ objects' = [id \in DOMAIN objects |->
                         IF IsEnabledFor(lv) /\ Installed(id) /\ Handles(objects[id], record)
                         THEN [objects[id] EXCEPT !.out = Append(@, n)]
                         ELSE objects[id]]

\* Logger.addHandler and Logger.removeHandler.
addHandler(hs, id) == IF \E i \in DOMAIN hs : hs[i] = id THEN hs ELSE Append(hs, id)

\* A removal that takes the handler at the front of the list, whichever it is.
removeHandler_First(hs, id) == IF hs = <<>> THEN hs ELSE Tail(hs)

removeHandler(hs, id) == SelectSeq(hs, LAMBDA x : x # id)

Imported == lastcall.op # "new"

hookVars ==
    <<showwarning, _showwarning_orig, excepthook, _excepthook_orig, ipython,
      custom_exceptions, calls, lastcall, history>>

captureVars == <<level, handlers, objects, blocks, logged>>

Called(op, raised) == lastcall' = [op |-> op, raised |-> raised]

\* ------------------------------------------------------------------------
\* The logger's hooks: warnings.showwarning and sys.excepthook
\* ------------------------------------------------------------------------

\* The hooks another party may install: the interpreter's own or one of its own.
ForeignHooks == {"default", "custom"}

\* The module whose warnings and exceptions the hooks see, and the exceptions that
\* may go uncaught.
Module == <<"a", "b">>

Exceptions == {"KeyError", "ValueError"}

warnings_logging_enabled == _showwarning_orig # None

exception_logging_enabled ==
    IF ipython
    THEN "_AstLogIPYExc" \in custom_exceptions
    ELSE _excepthook_orig # None

\* The assignments of enable_warnings_logging once it has not raised.
InstallShowwarning ==
    /\ _showwarning_orig' = showwarning
    /\ showwarning' = "_showwarning"

\* The assignments of enable_exception_logging once it has not raised: ip is whether
\* get_ipython() gave a shell.
InstallExcepthook(ip) ==
    IF ip
    THEN /\ custom_exceptions' = {"BaseException", "_AstLogIPYExc"}
         /\ _excepthook_orig' = "noop"
         /\ UNCHANGED excepthook
    ELSE /\ _excepthook_orig' = excepthook
         /\ excepthook' = "_excepthook"
         /\ UNCHANGED custom_exceptions

\* The disable with the two assignments in the other order: the saved hook is
\* forgotten before it is put back.
RestoreShowwarning_Forgets ==
    /\ _showwarning_orig' = None
    /\ showwarning' = None

\* The assignments of disable_warnings_logging once it has not raised.
RestoreShowwarning ==
    /\ showwarning' = _showwarning_orig
    /\ _showwarning_orig' = None

\* The disable without its IPython branch: sys.excepthook is put back whatever the
\* interpreter, and the shell's custom handler stays registered.
RestoreExcepthook_PlainOnly(ip) ==
    /\ excepthook' = IF ip THEN excepthook ELSE _excepthook_orig
    /\ _excepthook_orig' = None
    /\ UNCHANGED custom_exceptions

\* The assignments of disable_exception_logging once it has not raised.
RestoreExcepthook(ip) ==
    IF ip
    THEN /\ custom_exceptions' = {}
         /\ UNCHANGED <<excepthook, _excepthook_orig>>
    ELSE /\ excepthook' = _excepthook_orig
         /\ _excepthook_orig' = None
         /\ UNCHANGED custom_exceptions

NowOn(found) == [on |-> TRUE, found |-> found, foreign |-> FALSE]

\* The enable saving the current hook before it checks: a second enable raises, but
\* has already overwritten the saved hook with the logger's own.
enable_warnings_logging_SavesFirst ==
    /\ Imported
    /\ _showwarning_orig' = showwarning
    /\ IF warnings_logging_enabled
       THEN /\ Called("enable_warnings_logging", TRUE)
            /\ UNCHANGED <<showwarning, history>>
       ELSE /\ showwarning' = "_showwarning"
            /\ history' = [history EXCEPT !.warnings = NowOn(showwarning)]
            /\ Called("enable_warnings_logging", FALSE)
    /\ UNCHANGED <<excepthook, _excepthook_orig, ipython, custom_exceptions, calls>>
    /\ UNCHANGED <<captureVars, parserVars, parses>>

enable_warnings_logging ==
    /\ Imported
    /\ IF warnings_logging_enabled
       THEN /\ Called("enable_warnings_logging", TRUE)
            /\ UNCHANGED <<showwarning, _showwarning_orig, history>>
       ELSE /\ InstallShowwarning
            /\ history' = [history EXCEPT !.warnings = NowOn(showwarning)]
            /\ Called("enable_warnings_logging", FALSE)
    /\ UNCHANGED <<excepthook, _excepthook_orig, ipython, custom_exceptions, calls>>
    /\ UNCHANGED <<captureVars, parserVars, parses>>

\* The disable without its test of warnings.showwarning: whatever is installed is
\* replaced by the saved hook.
disable_warnings_logging_Unchecked ==
    /\ Imported
    /\ IF ~warnings_logging_enabled
       THEN /\ Called("disable_warnings_logging", TRUE)
            /\ UNCHANGED <<showwarning, _showwarning_orig, history>>
       ELSE /\ showwarning' = _showwarning_orig
            /\ _showwarning_orig' = None
            /\ history' = [history EXCEPT !.warnings.on = FALSE]
            /\ Called("disable_warnings_logging", FALSE)
    /\ UNCHANGED <<excepthook, _excepthook_orig, ipython, custom_exceptions, calls>>
    /\ UNCHANGED <<captureVars, parserVars, parses>>

disable_warnings_logging ==
    /\ Imported
    /\ IF ~warnings_logging_enabled \/ showwarning # "_showwarning"
       THEN /\ Called("disable_warnings_logging", TRUE)
            /\ UNCHANGED <<showwarning, _showwarning_orig, history>>
       ELSE /\ RestoreShowwarning
            /\ history' = [history EXCEPT !.warnings.on = FALSE]
            /\ Called("disable_warnings_logging", FALSE)
    /\ UNCHANGED <<excepthook, _excepthook_orig, ipython, custom_exceptions, calls>>
    /\ UNCHANGED <<captureVars, parserVars, parses>>

enable_exception_logging ==
    /\ Imported
    /\ IF exception_logging_enabled
       THEN /\ Called("enable_exception_logging", TRUE)
            /\ UNCHANGED <<excepthook, _excepthook_orig, custom_exceptions, history>>
       ELSE /\ InstallExcepthook(ipython)
            /\ history' = [history EXCEPT !.exception = NowOn(excepthook)]
            /\ Called("enable_exception_logging", FALSE)
    /\ UNCHANGED <<showwarning, _showwarning_orig, ipython, calls>>
    /\ UNCHANGED <<captureVars, parserVars, parses>>

disable_exception_logging ==
    /\ Imported
    /\ IF ~exception_logging_enabled \/ (~ipython /\ excepthook # "_excepthook")
       THEN /\ Called("disable_exception_logging", TRUE)
            /\ UNCHANGED <<excepthook, _excepthook_orig, custom_exceptions, history>>
       ELSE /\ RestoreExcepthook(ipython)
            /\ history' = [history EXCEPT !.exception.on = FALSE]
            /\ Called("disable_exception_logging", FALSE)
    /\ UNCHANGED <<showwarning, _showwarning_orig, ipython, calls>>
    /\ UNCHANGED <<captureVars, parserVars, parses>>

\* Another party assigns warnings.showwarning, or sys.excepthook, a hook of its own.
ForeignShowwarning ==
    /\ \E h \in ForeignHooks \ {showwarning} : showwarning' = h
    /\ history' = [history EXCEPT !.warnings.foreign = history.warnings.on]
    /\ Called(IF Imported THEN "foreign" ELSE "new", FALSE)
    /\ UNCHANGED <<_showwarning_orig, excepthook, _excepthook_orig, ipython,
                   custom_exceptions, calls>>
    /\ UNCHANGED <<captureVars, parserVars, parses>>

ForeignExcepthook ==
    /\ \E h \in ForeignHooks \ {excepthook} : excepthook' = h
    /\ history' = [history EXCEPT !.exception.foreign = history.exception.on]
    /\ Called(IF Imported THEN "foreign" ELSE "new", FALSE)
    /\ UNCHANGED <<showwarning, _showwarning_orig, _excepthook_orig, ipython,
                   custom_exceptions, calls>>
    /\ UNCHANGED <<captureVars, parserVars, parses>>

\* warnings.warn shows a warning through warnings.showwarning; when that is the
\* logger's _showwarning, the warning is logged at WARNING with its module as origin.
_showwarning ==
    /\ Imported
    /\ showwarning = "_showwarning"
    /\ Len(logged) < MaxEmit
    /\ Log("WARNING", Module)
    /\ Called("warn", FALSE)
    /\ UNCHANGED <<level, handlers, blocks>>
    /\ UNCHANGED <<showwarning, _showwarning_orig, excepthook, _excepthook_orig, ipython,
                   custom_exceptions, calls, history>>
    /\ UNCHANGED <<parserVars, parses>>

\* The uncaught exceptions handled so far.
Handled == {calls[i].k : i \in DOMAIN calls}

\* What one handling of an uncaught exception appends to calls: a record logged for
\* it (at position n of logged), or a hook called with it.
Logged(k, exc, n) == [k |-> k, what |-> "record", hook |-> "_excepthook", exc |-> exc, n |-> n]

Passed(k, exc, hook) == [k |-> k, what |-> "call", hook |-> hook, exc |-> exc, n |-> 0]

\* The hook with its two statements in the other order: the saved hook is called
\* first, the record is logged after.
ExcepthookEvents_OrigFirst(k, exc) ==
    <<Passed(k, exc, _excepthook_orig), Logged(k, exc, Len(logged) + 1)>>

\* self._excepthook(etype, value, traceback) for the k-th uncaught exception:
\* self.error(message), then self._excepthook_orig(etype, value, traceback).
ExcepthookEvents(k, exc) ==
    <<Logged(k, exc, Len(logged) + 1), Passed(k, exc, _excepthook_orig)>>

\* An exception goes uncaught. The plain interpreter calls sys.excepthook; IPython
\* calls the custom handler when one is registered for the exception (ipy_exc_handler:
\* self._excepthook, then the shell's showtraceback), else shows its own traceback.
Uncaught ==
    /\ Imported
    /\ Len(logged) < MaxEmit
    /\ Cardinality(Handled) < MaxEmit
    /\ \E exc \in Exceptions :
          LET k == Cardinality(Handled) + 1
          IN  IF ipython
              THEN IF "BaseException" \in custom_exceptions
                   THEN /\ Log("ERROR", Module)
                        /\ calls' = calls \o ExcepthookEvents(k, exc)
                                          \o <<Passed(k, exc, "showtraceback")>>
                   ELSE /\ calls' = Append(calls, Passed(k, exc, "showtraceback"))
                        /\ UNCHANGED <<logged, objects>>
              ELSE IF excepthook = "_excepthook"
                   THEN /\ Log("ERROR", Module)
                        /\ calls' = calls \o ExcepthookEvents(k, exc)
                   ELSE /\ calls' = Append(calls, Passed(k, exc, excepthook))
                        /\ UNCHANGED <<logged, objects>>
    /\ Called("uncaught", FALSE)
    /\ UNCHANGED <<level, handlers, blocks>>
    /\ UNCHANGED <<showwarning, _showwarning_orig, excepthook, _excepthook_orig, ipython,
                   custom_exceptions, history>>
    /\ UNCHANGED <<parserVars, parses>>

\* _init_log: log._set_defaults() on the new logger, with the configuration items
\* as cfg (the items' defaults, or everything off and only errors logged) and the
\* interpreter as get_ipython() finds it. Nothing is enabled and no handler is installed on a new
\* logger, so the resets at the top of _set_defaults find nothing to do.
Configurations ==
    {[log_level |-> "INFO", log_to_file |-> TRUE, log_warnings |-> TRUE,
      log_exceptions |-> TRUE],
     [log_level |-> "ERROR", log_to_file |-> FALSE, log_warnings |-> FALSE,
      log_exceptions |-> FALSE]}

_set_defaults ==
    /\ lastcall.op = "new"
    /\ \E cfg \in Configurations :
          LET sh == NewHandler("stream", None, <<>>)
              fh == NewHandler("file", "INFO", <<>>)
          IN  /\ level' = cfg.log_level
              /\ objects' = IF cfg.log_to_file THEN <<sh, fh>> ELSE <<sh>>
              /\ handlers' = IF cfg.log_to_file THEN <<1, 2>> ELSE <<1>>
              /\ IF cfg.log_warnings
                 THEN InstallShowwarning
                 ELSE UNCHANGED <<showwarning, _showwarning_orig>>
              /\ IF cfg.log_exceptions
                 THEN InstallExcepthook(ipython)
                 ELSE UNCHANGED <<excepthook, _excepthook_orig, custom_exceptions>>
              /\ history' =
                    [warnings |-> IF cfg.log_warnings THEN NowOn(showwarning)
                                  ELSE history.warnings,
                     exception |-> IF cfg.log_exceptions THEN NowOn(excepthook)
                                   ELSE history.exception]
    /\ Called("_set_defaults", FALSE)
    /\ UNCHANGED <<blocks, logged, calls, ipython>>
    /\ UNCHANGED <<parserVars, parses>>

\* ------------------------------------------------------------------------
\* The logger: levels, messages and the capture blocks
\* ------------------------------------------------------------------------

\* log.debug, log.info, log.warning or log.error called from some module.
Emit ==
    /\ Imported
    /\ Len(logged) < MaxEmit
    /\ \E lv \in LevelNames, origin \in Origins : Log(lv, origin)
    /\ UNCHANGED <<level, handlers, blocks>>
    /\ UNCHANGED <<hookVars, parserVars, parses>>

\* A with block as entered: its handler, the arguments given, the position in logged
\* and the handlers installed when it was entered, and where it stands: "active",
\* "exited" (the body ran to its end) or "raised" (the body raised).
NewBlock(kind, id, flevel, forigin) ==
    [kind |-> kind, handler |-> id, filter_level |-> flevel, filter_origin |-> forigin,
     status |-> "active", from |-> Len(logged), to |-> Len(logged), before |-> handlers]

\* The generator up to its yield: make the handler, set its level and filter when
\* given, add it to the logger.
EnterBlock(kind, flevel, forigin) ==
    LET id == Len(objects) + 1
    IN  /\ objects' = Append(objects, NewHandler(kind, flevel, forigin))
        /\ handlers' = addHandler(handlers, id)
        /\ blocks' = Append(blocks, NewBlock(kind, id, flevel, forigin))

log_to_list ==
    /\ Imported
    /\ Len(blocks) < MaxBlocks
    /\ \E flevel \in FilterLevels, forigin \in FilterOrigins :
          EnterBlock("list", flevel, forigin)
    /\ UNCHANGED <<level, logged>>
    /\ UNCHANGED <<hookVars, parserVars, parses>>

\* FileHandler(filename) opens the file and raises when it cannot: nothing was added.
log_to_file ==
    /\ Imported
    /\ Len(blocks) < MaxBlocks
    /\ \E flevel \in FilterLevels, forigin \in FilterOrigins, opened \in BOOLEAN :
          IF opened
          THEN EnterBlock("file", flevel, forigin)
          ELSE UNCHANGED <<objects, handlers, blocks>>
    /\ UNCHANGED <<level, logged>>
    /\ UNCHANGED <<hookVars, parserVars, parses>>

Active == {b \in DOMAIN blocks : blocks[b].status = "active"}

\* with blocks nest: the one left next is the one entered last.
Innermost == CHOOSE b \in Active : \A c \in Active : c <= b

\* The body ends: the generator runs on from its yield, closing a file handler and
\* removing the handler.
LeaveBlock ==
    /\ Active # {}
    /\ LET b == Innermost
           id == blocks[b].handler
       IN  /\ objects' = [objects EXCEPT ![id].closed = (blocks[b].kind = "file")]
           /\ handlers' = removeHandler(handlers, id)
           /\ blocks' = [blocks EXCEPT ![b].status = "exited", ![b].to = Len(logged)]
    /\ UNCHANGED <<level, logged>>
    /\ UNCHANGED <<hookVars, parserVars, parses>>

\* The body raises: the exception is thrown into the generator at its yield, which
\* is inside no try statement, so the generator ends there without running the
\* statements after the yield.
RaiseInBlock ==
    /\ Active # {}
    /\ blocks' = [blocks EXCEPT ![Innermost].status = "raised",
                                ![Innermost].to = Len(logged)]
    /\ UNCHANGED <<level, handlers, objects, logged>>
    /\ UNCHANGED <<hookVars, parserVars, parses>>

\* The hooks and the capture blocks keep their state apart (hookVars, captureVars) and
\* meet only in the records logged, so each is explored with the calls that bear on
\* it: the hooks with the warnings and exceptions they log, the capture blocks with
\* messages of every level and origin, whatever their source.
HooksNext ==
    \/ _set_defaults
    \/ enable_warnings_logging \/ disable_warnings_logging
    \/ enable_exception_logging \/ disable_exception_logging
    \/ ForeignShowwarning \/ ForeignExcepthook
    \/ _showwarning \/ Uncaught

\* The hooks are explored in the plain interpreter and under IPython.
HooksInit == ParserInit /\ \E ip \in BOOLEAN : NewLogger(ip)

HooksSpec == HooksInit /\ [][HooksNext]_vars

CaptureNext ==
    \/ _set_defaults
    \/ Emit
    \/ log_to_list \/ log_to_file \/ LeaveBlock \/ RaiseInBlock

CaptureSpec == Init /\ [][CaptureNext]_vars

\* ------------------------------------------------------------------------
\* Claims about the capture blocks
\* ------------------------------------------------------------------------

Left(b) == blocks[b].status # "active"

\* Every block entered after b has been left as well.
NothingInside(b) == \A c \in DOMAIN blocks : c > b => Left(c)

\* C12: once a log_to_list or log_to_file block has been left, whether its body ran
\* to its end or raised, the handler added on entry is no longer installed, a file
\* handler has been closed, and the installed handlers are those of before the entry.
C12_RemovedOnEveryExit ==
    \A b \in DOMAIN blocks :
        Left(b) =>
            /\ ~Installed(blocks[b].handler)
            /\ blocks[b].kind = "file" => objects[blocks[b].handler].closed
            /\ NothingInside(b) => handlers = blocks[b].before

\* The positions in logged of the messages logged while block b was capturing: from
\* its entry to its normal exit, or to now for a block that is active or, left by an
\* exception, still has its handler installed.
Window(b) ==
    LET upto == IF blocks[b].status = "exited" THEN blocks[b].to ELSE Len(logged)
    IN  [i \in 1..(upto - blocks[b].from) |-> blocks[b].from + i]

\* The message at position p became a record (it was at or above the logger's level
\* when logged) and meets the arguments given for block b.
Wanted(b, p) ==
    LET flevel == blocks[b].filter_level
        forigin == blocks[b].filter_origin
    IN  /\ _checkLevel(logged[p].levelname) >= _checkLevel(logged[p].threshold)
        /\ flevel # None => _checkLevel(logged[p].levelname) >= _checkLevel(flevel)
        /\ Len(forigin) > 0 => IsPrefix(forigin[1], logged[p].origin)

log_list(b) == objects[blocks[b].handler].out

\* C15: the list yielded by log_to_list(filter_level, filter_origin) holds, in the
\* order they were logged and once each, exactly the records logged while the block
\* was active that are at or above the logger's level, at or above filter_level when
\* given, and whose origin starts with filter_origin when given; nothing logged
\* before the entry or after a normal exit is in it. (A block left by an exception
\* keeps its handler, see C12, and its list goes on capturing.)
C15_ListCaptureExact ==
    \A b \in DOMAIN blocks :
        blocks[b].kind = "list" =>
            log_list(b) = SelectSeq(Window(b), LAMBDA p : Wanted(b, p))

\* A block with both filters given has been left normally with two records in its
\* list, in order, and a list block entered after it has none of them.
C15_Witness ==
    /\ Len(blocks) = 2
    /\ blocks[1].kind = "list" /\ blocks[1].status = "exited"
    /\ blocks[1].filter_level = "WARNING" /\ Len(blocks[1].filter_origin) = 1
    /\ log_list(1) = <<1, 2>>
    /\ logged[1].levelname = "ERROR" /\ logged[2].levelname = "WARNING"
    /\ blocks[2].kind = "list" /\ log_list(2) = <<>>

\* The handlers that belong to no capture block: those _set_defaults installed.
OtherHandlers == {id \in DOMAIN objects : \A b \in DOMAIN blocks : blocks[b].handler # id}

OwnerOf(id) == CHOOSE b \in DOMAIN blocks : blocks[b].handler = id

\* What a handler of level lv with no filter is given: every message that became a
\* record at or above lv.
Delivered(lv) ==
    SelectSeq([p \in 1..Len(logged) |-> p],
              LAMBDA p : /\ _checkLevel(logged[p].levelname) >= _checkLevel(logged[p].threshold)
                         /\ _checkLevel(logged[p].levelname) >= _checkLevel(lv))

\* The stdout handler and the log-file handler are as _set_defaults made them and
\* have been given every record at or above their own level.
OthersUndisturbed ==
    \A id \in OtherHandlers :
        /\ Installed(id)
        /\ objects[id].level = (IF objects[id].kind = "file" THEN "INFO" ELSE "NOTSET")
        /\ objects[id].filters = <<>>
        /\ ~objects[id].closed
        /\ objects[id].out = Delivered(objects[id].level)

\* C16: entering and leaving log_to_list or log_to_file leaves every other handler
\* of the logger (the stdout handler, the configured log-file handler) installed, in
\* place and unchanged, and every record logged inside a block still reaches them
\* whatever the block's filter_level and filter_origin; nested blocks each keep
\* their own handler, and leaving the inner block normally removes the inner
\* handler and no other.
C16_OtherHandlersUndisturbed ==
    /\ OthersUndisturbed
    /\ SelectSeq(handlers, LAMBDA id : id \in OtherHandlers)
          = SelectSeq([id \in DOMAIN objects |-> id], LAMBDA id : id \in OtherHandlers)
    /\ SelectSeq(handlers, LAMBDA id : id \notin OtherHandlers)
          = SelectSeq([b \in DOMAIN blocks |-> blocks[b].handler],
                      LAMBDA id : blocks[OwnerOf(id)].status # "exited")

\* Inside a block without filters, an inner log_to_list block asking for WARNING and
\* up has been entered and left normally; an INFO message logged inside it reached
\* the stdout handler, the log file and the outer list, and only the inner handler
\* is gone.
C16_Witness ==
    /\ Len(blocks) = 2
    /\ blocks[1].status = "active" /\ blocks[1].filter_level = None
    /\ blocks[1].filter_origin = <<>>
    /\ blocks[2].kind = "list" /\ blocks[2].status = "exited"
    /\ blocks[2].filter_level = "WARNING"
    /\ blocks[2].from = 0 /\ blocks[2].to = 1
    /\ logged[1].levelname = "INFO"
    /\ handlers = <<1, 2, 3>>
    /\ objects[1].out = <<1>> /\ objects[2].out = <<1>> /\ objects[3].out = <<1>>
    /\ log_list(2) = <<>>

\* ------------------------------------------------------------------------
\* Claims about the hooks
\* ------------------------------------------------------------------------

Succeeded(op) == lastcall = [op |-> op, raised |-> FALSE]

Raised(op) == lastcall = [op |-> op, raised |-> TRUE]

\* C13: from the disabled state, enable_warnings_logging() followed by
\* disable_warnings_logging(), with no other party reassigning the hook in between,
\* leaves warnings.showwarning the function that was installed before the enable and
\* warnings_logging_enabled() False; between the two calls warnings.showwarning is the
\* logger's _showwarning and warnings_logging_enabled() is True; and the logger is
\* then disabled as at the start, so the sequence can be repeated.
C13_WarningsRoundTrip ==
    /\ history.warnings.on /\ ~history.warnings.foreign =>
          showwarning = "_showwarning" /\ warnings_logging_enabled
    /\ Succeeded("disable_warnings_logging") =>
          showwarning = history.warnings.found /\ ~warnings_logging_enabled
    /\ ~history.warnings.on => ~warnings_logging_enabled

\* The hook of another party, installed while the logging was off, is back in place
\* after an enable, a warning logged and a disable.
C13_Witness ==
    /\ Succeeded("disable_warnings_logging")
    /\ history.warnings.found = "custom"
    /\ showwarning = "custom"
    /\ \E i \in DOMAIN logged : logged[i].levelname = "WARNING"

\* C14: in the plain interpreter and under IPython alike, exception_logging_enabled()
\* is True exactly from a successful enable_exception_logging() to the next successful
\* disable_exception_logging(); in the plain interpreter a successful disable puts
\* back in sys.excepthook the hook that was installed before the enable; and an
\* enable is refused only while the feature is on, so after a disable it can be
\* enabled again.
C14_ExceptionEnabledInterval ==
    /\ exception_logging_enabled <=> history.exception.on
    /\ ~ipython /\ Succeeded("disable_exception_logging") =>
          excepthook = history.exception.found
    /\ Raised("enable_exception_logging") => history.exception.on

\* Under IPython: a first exception was logged while the feature was on, a second
\* was not while it was off, and the feature has just been enabled again.
C14_Witness ==
    /\ ipython
    /\ Succeeded("enable_exception_logging")
    /\ exception_logging_enabled
    /\ Len(calls) = 4
    /\ calls[1] = Logged(1, calls[1].exc, 1)
    /\ calls[4] = Passed(2, calls[4].exc, "showtraceback")

\* What the step just taken appended to calls.
NewCalls == SubSeq(calls', Len(calls) + 1, Len(calls'))

\* An uncaught exception now would go to the logger's _excepthook: the feature is on
\* and, in the plain interpreter, sys.excepthook is still the logger's.
GoesToExcepthook == exception_logging_enabled /\ (ipython \/ excepthook = "_excepthook")

\* What handled uncaught exceptions before the enable: the hook the enable found in
\* sys.excepthook or, under IPython, the shell's own traceback display.
OriginalHook == IF ipython THEN "showtraceback" ELSE history.exception.found

\* C17: while exception logging is enabled, each uncaught exception that _excepthook
\* handles first makes the logger emit exactly one record, at level ERROR, and only
\* after that is passed on, the same exception, exactly once to what handled
\* uncaught exceptions before the enable; that original hook is never skipped and
\* never called before the record.
C17_RecordThenOriginalHook ==
    [][calls' # calls /\ GoesToExcepthook =>
          LET ev == NewCalls
              records == SelectSeq(ev, LAMBDA e : e.what = "record")
              passes == SelectSeq(ev, LAMBDA e : e.what = "call" /\ e.hook = OriginalHook)
          IN  /\ Len(ev) >= 2
              /\ ev[1].what = "record"
              /\ Len(records) = 1
              /\ Len(logged') = Len(logged) + 1
              /\ ev[1].n = Len(logged')
              /\ logged'[ev[1].n].levelname = "ERROR"
              /\ _checkLevel("ERROR") >= _checkLevel(logged'[ev[1].n].threshold)
              /\ objects'[1].out = Append(objects[1].out, ev[1].n)
              /\ Len(passes) = 1
              /\ passes[1].exc = ev[1].exc
              /\ \A i \in DOMAIN ev : ev[i].k = ev[1].k]_vars

\* In the plain interpreter, with another party's hook in place before the enable:
\* a KeyError went uncaught, was logged at ERROR and then handed to that hook.
C17_Witness ==
    /\ ~ipython
    /\ excepthook = "_excepthook"
    /\ calls = <<Logged(1, "KeyError", 1), Passed(1, "KeyError", "custom")>>
    /\ logged[1].levelname = "ERROR"
    /\ objects[1].out = <<1>>

\* The calls that switch a feature, and the state in which each is out of place.
Switches ==
    {"enable_warnings_logging", "disable_warnings_logging",
     "enable_exception_logging", "disable_exception_logging"}

OutOfPlace(op) ==
    CASE op = "enable_warnings_logging" -> warnings_logging_enabled
      [] op = "disable_warnings_logging" -> ~warnings_logging_enabled
      [] op = "enable_exception_logging" -> exception_logging_enabled
      [] op = "disable_exception_logging" -> ~exception_logging_enabled

\* C18: enable_warnings_logging (resp. enable_exception_logging) called while the
\* feature is already enabled, and disable_warnings_logging (resp.
\* disable_exception_logging) called while it is not, raise LoggingError and leave
\* warnings.showwarning, sys.excepthook, _showwarning_orig and _excepthook_orig (and
\* IPython's custom exceptions) exactly as they were before the call.
C18_IllegalCallsHaveNoEffect ==
    [][\A op \in Switches :
          lastcall'.op = op /\ OutOfPlace(op) =>
              /\ lastcall'.raised
              /\ UNCHANGED <<showwarning, excepthook, _showwarning_orig, _excepthook_orig,
                             custom_exceptions>>]_vars

\* Under IPython, with exception logging switched off, disable_exception_logging has
\* just raised; the warnings hook and the hook saved for it stand as an enable after
\* another party's assignment left them.
C18_Witness ==
    /\ ipython
    /\ Raised("disable_exception_logging")
    /\ ~exception_logging_enabled
    /\ custom_exceptions = {}
    /\ warnings_logging_enabled
    /\ showwarning = "_showwarning"
    /\ _showwarning_orig = "custom"

\* The step is a call on the logger that may assign the hooks.
ByLogger == lastcall'.op \in Switches \cup {"_set_defaults"}

\* C19: when, after a successful enable, another party has put a different function
\* in warnings.showwarning (resp. in sys.excepthook, in the plain interpreter),
\* disable_warnings_logging (resp. disable_exception_logging) raises LoggingError,
\* leaves that function installed and leaves the logger reporting the feature
\* enabled with the hook it saved intact; and the logger never replaces a hook it
\* did not install without having saved it.
C19_ForeignHookKept ==
    [][/\ ( /\ lastcall'.op = "disable_warnings_logging"
            /\ history.warnings.on /\ history.warnings.foreign
            /\ showwarning # "_showwarning" )
          => /\ lastcall'.raised
             /\ showwarning' = showwarning
             /\ warnings_logging_enabled'
             /\ _showwarning_orig' = history.warnings.found
       /\ ( /\ lastcall'.op = "disable_exception_logging"
            /\ ~ipython
            /\ history.exception.on /\ history.exception.foreign
            /\ excepthook # "_excepthook" )
          => /\ lastcall'.raised
             /\ excepthook' = excepthook
             /\ exception_logging_enabled'
             /\ _excepthook_orig' = history.exception.found
       /\ ByLogger /\ showwarning' # showwarning
          => showwarning = "_showwarning" \/ _showwarning_orig' = showwarning
       /\ ByLogger /\ excepthook' # excepthook
          => excepthook = "_excepthook" \/ _excepthook_orig' = excepthook]_vars

\* Warnings logging was enabled over the interpreter's own hook, another party then
\* installed its hook, and disable_warnings_logging has just raised: that hook is
\* still installed and the logger still holds the saved one.
C19_Witness ==
    /\ Raised("disable_warnings_logging")
    /\ showwarning = "custom"
    /\ history.warnings = [on |-> TRUE, found |-> "default", foreign |-> TRUE]
    /\ _showwarning_orig = "default"
    /\ warnings_logging_enabled

\* ------------------------------------------------------------------------
\* Where a UFLOAT may stand
\* ------------------------------------------------------------------------

\* Which numeric token of seq, counting from 1, the one at position i is.
NumericRank(seq, i) == Cardinality({j \in NumericPositions(seq) : j <= i})

\* The sequences the claim names as rejected.
FloatMisplaced ==
    {<<"UINT", "COLON", "UFLOAT">>, <<"UINT", "UFLOAT">>, <<"UFLOAT", "UINT">>,
     <<"UINT", "DEGREE", "UFLOAT", "MINUTE">>}

\* C20: in every accepted token sequence with two or more numeric tokens the first
\* and the second numeric token are UINT; a UFLOAT is accepted only as the one
\* numeric token of the sequence or as its third (the seconds), in the colon, spaced,
\* hms and dms forms alike; UINT COLON UFLOAT, UINT UFLOAT, UFLOAT UINT and
\* UINT DEGREE UFLOAT MINUTE are rejected.
C20_FloatPlacement ==
    /\ outcome = "accept" =>
          \A i \in NumericPositions(input) :
              /\ Cardinality(NumericPositions(input)) >= 2 /\ NumericRank(input, i) <= 2
                    => input[i] = "UINT"
              /\ input[i] = "UFLOAT"
                    => \/ Cardinality(NumericPositions(input)) = 1
                       \/ NumericRank(input, i) = 3
    /\ \A seq \in FloatMisplaced :
          /\ IsPrefix(seq, input) => outcome # "accept"
          /\ ParseOf(seq).outcome = "error"

\* A dms angle with decimal seconds has been accepted: the UFLOAT is its third number.
C20_Witness ==
    /\ outcome = "accept"
    /\ input = <<"SIGN", "UINT", "DEGREE", "UINT", "MINUTE", "UFLOAT", "SECOND">>

====
